---------------------------- MODULE Spec2Model ----------------------------
(***************************************************************************)
(* A model of balena-pricing's CreditPricing class (src/src/index.ts and   *)
(* the later revision in src/unnamed/part_002): the definition selector    *)
(* (constructor, sortCredits, validateCredits, getDefinition) and the      *)
(* pricing curve (getCreditPrice and the operations derived from it).      *)
(*                                                                         *)
(* JavaScript numbers are modelled as decimal numbers m * 10^e (plus NaN), *)
(* which represents every quantity and price of the program exactly.  The  *)
(* transcendental functions Math.log10 and Math.pow are computed in binary *)
(* fixed point with 24 fractional bits; the linear segment of the curve is *)
(* computed in exact rational arithmetic.                                  *)
(***************************************************************************)
EXTENDS Integers, Sequences, FiniteSets, TLC

-----------------------------------------------------------------------------
(* JavaScript numbers                                                      *)

\* 10^n for n >= 0.
RECURSIVE Pow10(_)
Pow10(n) == IF n <= 0 THEN 1 ELSE 10 * Pow10(n - 1)

\* 2^n for n >= 0.
RECURSIVE Pow2(_)
Pow2(n) == IF n <= 0 THEN 1 ELSE 2 * Pow2(n - 1)

\* The canonical form of m * 10^e: trailing zeros of m moved into e.
RECURSIVE Norm(_, _)
Norm(m, e) ==
    IF m = 0 THEN [k |-> "num", m |-> 0, e |-> 0]
    ELSE IF m % 10 = 0 THEN Norm(m \div 10, e + 1)
    ELSE [k |-> "num", m |-> m, e |-> e]

\* The number n (an integer literal of the program or of a test).
Int2Num(n) == Norm(n, 0)

NaN == [k |-> "NaN", m |-> 0, e |-> 0]

\* The fraction m / 10^d, such as 10.5 = Frac(105, 1).
Frac(m, d) == Norm(m, -d)

\* Number.isInteger(x): false for NaN and for a number with a fractional part.
IsInteger(x) == x.k = "num" /\ x.e >= 0

\* The integer value of an integral number that fits a machine word.
ToInt(x) == x.m * Pow10(x.e)

\* The number of decimal digits of n > 0.
RECURSIVE Digits(_)
Digits(n) == IF n < 10 THEN 1 ELSE 1 + Digits(n \div 10)

\* x < y for positive numbers: by magnitude first, then digit by digit.
PosLess(x, y) ==
    LET dx == Digits(x.m) + x.e
        dy == Digits(y.m) + y.e
    IN  IF dx # dy THEN dx < dy
        ELSE IF x.e >= y.e THEN x.m * Pow10(x.e - y.e) < y.m
        ELSE x.m < y.m * Pow10(y.e - x.e)

\* x < y as JavaScript compares numbers: false when either is NaN.
NumLess(x, y) ==
    IF x.k = "NaN" \/ y.k = "NaN" THEN FALSE
    ELSE IF x.m <= 0 /\ y.m <= 0
         THEN (x.m # 0 /\ y.m = 0) \/
              (x.m # 0 /\ y.m # 0 /\
                 PosLess([y EXCEPT !.m = -y.m], [x EXCEPT !.m = -x.m]))
    ELSE IF x.m <= 0 THEN TRUE
    ELSE IF y.m <= 0 THEN FALSE
    ELSE PosLess(x, y)

\* x <= y as JavaScript compares numbers: false when either is NaN.
NumLeq(x, y) ==
    IF x.k = "NaN" \/ y.k = "NaN" THEN FALSE ELSE x = y \/ NumLess(x, y)

\* x + y.
NumAdd(x, y) ==
    IF x.k = "NaN" \/ y.k = "NaN" THEN NaN
    ELSE IF x.m = 0 THEN y
    ELSE IF y.m = 0 THEN x
    ELSE IF x.e >= y.e THEN Norm(x.m * Pow10(x.e - y.e) + y.m, y.e)
    ELSE Norm(x.m + y.m * Pow10(y.e - x.e), x.e)

\* x * y.
NumMul(x, y) ==
    IF x.k = "NaN" \/ y.k = "NaN" THEN NaN ELSE Norm(x.m * y.m, x.e + y.e)

\* Math.round of the rational n / d, d > 0: the nearest integer, a tie going
\* up (towards +Infinity), which is floor(n / d + 1/2).
RoundRat(n, d) == (2 * n + d) \div (2 * d)

\* Math.round of a number: NaN stays NaN, an integer is unchanged.
MathRound(x) ==
    IF x.k = "NaN" THEN NaN
    ELSE IF x.e >= 0 THEN x
    ELSE Int2Num(RoundRat(x.m, Pow10(-x.e)))

-----------------------------------------------------------------------------
(* Math.log10 and Math.pow in binary fixed point                           *)

\* The fixed-point unit (1.0) is Limb * Limb = 2^24; a product is formed
\* limb by limb so that every intermediate value fits a machine word.
Limb == 64 * 64
Unit == Limb * Limb
FracBits == 12 + 12

\* floor(x * y / Unit), to within two units in the last place, x, y >= 0.
FixMul(x, y) ==
    LET x2 == x \div Unit
        x1 == (x \div Limb) % Limb
        x0 == x % Limb
        y2 == y \div Unit
        y1 == (y \div Limb) % Limb
        y0 == y % Limb
    IN  (x2 * y2 * Unit) + ((x2 * y1 + x1 * y2) * Limb)
          + (x2 * y0 + x1 * y1 + x0 * y2)
          + ((x1 * y0 + x0 * y1) \div Limb)

\* floor(a / b) in fixed point by long division, 0 <= a, 0 < b < 2^30.
RECURSIVE DivBits(_, _, _, _)
DivBits(r, b, n, acc) ==
    IF n = 0 THEN acc
    ELSE IF 2 * r >= b THEN DivBits(2 * r - b, b, n - 1, 2 * acc + 1)
    ELSE DivBits(2 * r, b, n - 1, 2 * acc)

FixDiv(a, b) == (a \div b) * Unit + DivBits(a % b, b, FracBits, 0)

\* floor(log2(n)) for an integer n >= 1.
RECURSIVE FloorLog2(_)
FloorLog2(n) == IF n < 2 THEN 0 ELSE 1 + FloorLog2(n \div 2)

\* The fractional bits of log2(m) for a mantissa m in [1, 2): square, and
\* emit a one-bit whenever the square reaches 2.
RECURSIVE LogFrac(_, _, _)
LogFrac(m, n, acc) ==
    IF n = 0 THEN acc
    ELSE LET sq == FixMul(m, m)
         IN  IF sq >= 2 * Unit
             THEN LogFrac(sq \div 2, n - 1, 2 * acc + 1)
             ELSE LogFrac(sq, n - 1, 2 * acc)

\* log2(n) in fixed point for an integer n >= 1.
Log2Int(n) ==
    LET k == FloorLog2(n)
        m == IF k <= FracBits THEN n * Pow2(FracBits - k)
             ELSE n \div Pow2(k - FracBits)
    IN  k * Unit + LogFrac(m, FracBits, 0)

\* ln(2) = sum over k >= 1 of 1 / (k * 2^k), each term rounded.
RECURSIVE Ln2Sum(_)
Ln2Sum(k) ==
    IF k > FracBits THEN 0
    ELSE (((2 * Unit) \div (k * Pow2(k))) + 1) \div 2 + Ln2Sum(k + 1)

Ln2 == Ln2Sum(1)

\* e^w = sum of w^k / k! for a fixed-point w in [0, 1).
RECURSIVE ExpSeries(_, _, _)
ExpSeries(w, term, k) ==
    IF term = 0 THEN 0
    ELSE term + ExpSeries(w, (FixMul(term, w)) \div k, k + 1)

\* 2^(-z) in fixed point for a fixed-point z >= 0.
Exp2Neg(z) ==
    LET zi == z \div Unit
        zf == z % Unit
    IN  IF zi >= 30 THEN 0
        ELSE (ExpSeries(FixMul(Unit - zf, Ln2), Unit, 1)) \div Pow2(zi + 1)

Log2Of10 == Log2Int(10)

\* Math.log10(x / d) in fixed point, for a number x >= d >= 1.
MathLog10Ratio(x, d) ==
    FixDiv(Log2Int(x.m) + x.e * Log2Of10 - Log2Int(d), Log2Of10)

\* Math.pow(bn / bd, ex) in fixed point for 0 < bn / bd < 1 and a fixed-point
\* exponent ex >= 0: 2^(ex * log2(bn / bd)).
MathPow(bn, bd, ex) ==
    LET lb == Log2Int(bd) - Log2Int(bn)
    IN  IF (ex \div Unit) * (lb \div Unit) >= 40 THEN 0
        ELSE Exp2Neg(FixMul(ex, lb))

\* Math.round(p * v) for an integer 0 <= p < 2^18 and a fixed-point v in [0, 1].
RoundScaled(p, v) ==
    LET w == (p * (v \div Limb)) + ((p * (v % Limb)) \div Limb)
    IN  (w + (Limb \div 2)) \div Limb

-----------------------------------------------------------------------------
(* Pricing definitions and the definition selector                         *)

VARIABLES
    CREDITS,        \* the built-in table of definitions (module constant CREDITS)
    callerCredits,  \* the collection the caller passed as options.credits
    inst,           \* the CreditPricing instance: its state, its fields and
                    \* the options it was constructed from
    now,            \* the wall clock, read by new Date()
    last,           \* the last call on the instance and what it produced
    run             \* the sustained-growth loop of the test suite

vars == <<CREDITS, callerCredits, inst, now, last, run>>

\* A Credit (one pricing definition); discountRate is the fraction rn / rd.
Credit(version, validFrom, first, rn, rd, threshold, thresholdPrice) ==
    [version |-> version,
     validFrom |-> validFrom,
     firstDiscountPriceCents |-> first,
     discountRate |-> [n |-> rn, d |-> rd],
     discountThreshold |-> threshold,
     discountThresholdPriceCents |-> thresholdPrice]

\* What a call yields when it returns no definition, and filler for the
\* fields of a result that carry nothing.
NoCredit == Credit(0, 0, 0, 0, 1, 0, 0)

\* The validFrom of the built-in definitions: two instants that lie before
\* every instant the clock of a run takes.
DefaultV1From == -2
DefaultV2From == -1

\* The built-in table as declared: version 1 first, version 2 second.
DeclaredCREDITS ==
    << [slug |-> "device:microservices",
        definitions |->
          << Credit(1, DefaultV1From, 149, 33, 100, 12000, 125),
             Credit(2, DefaultV2From, 199, 33, 100, 12000, 150) >>] >>

\* A Credits object is a sequence of (slug, definitions) entries in the
\* insertion order of its keys, which is the order Object.entries visits.
Keys(credits) == {credits[i].slug : i \in 1..Len(credits)}

Lookup(credits, slug) ==
    LET i == CHOOSE j \in 1..Len(credits) : credits[j].slug = slug
    IN  credits[i].definitions

\* Date.prototype.toISOString: the calendar form of an instant, here the
\* day and the tick within the day.
TicksPerDay == 4

\* A faulty rendering that keeps the day alone: C17 tells it from the
\* code's.
toISODate(t) == [day |-> t \div TicksPerDay, tick |-> 0]

toISOString(t) == [day |-> t \div TicksPerDay, tick |-> t % TicksPerDay]

\* The first duplicate in one feature's definitions, in iteration order:
\* the version is looked up before the validFrom of the same definition.
RECURSIVE validateDefinitions(_, _, _, _)
validateDefinitions(slug, definitions, versions, validFroms) ==
    IF definitions = << >>
    THEN [msg |-> "", slug |-> "", version |-> 0, validFrom |-> toISOString(0)]
    ELSE LET definition == Head(definitions)
             validFrom == toISOString(definition.validFrom)
         IN  IF definition.version \in versions
             THEN [msg |-> "Duplicate version", slug |-> slug,
                   version |-> definition.version,
                   validFrom |-> toISOString(0)]
             ELSE IF validFrom \in validFroms
             THEN [msg |-> "Duplicate validFrom", slug |-> slug,
                   version |-> 0, validFrom |-> validFrom]
             ELSE validateDefinitions(slug, Tail(definitions),
                                      versions \cup {definition.version},
                                      validFroms \cup {validFrom})

\* validateCredits: the error it throws, or one with an empty msg.
RECURSIVE validateCredits(_)
validateCredits(credits) ==
    IF credits = << >>
    THEN [msg |-> "", slug |-> "", version |-> 0, validFrom |-> toISOString(0)]
    ELSE LET e == validateDefinitions(credits[1].slug,
                                      credits[1].definitions, {}, {})
         IN  IF e.msg # "" THEN e ELSE validateCredits(Tail(credits))

\* A faulty comparator, oldest first: C7 tells it from the code's.
OlderStaysAhead(a, b) == a.validFrom <= b.validFrom

\* The comparator's verdict that a, already placed, stays ahead of b:
\* b.validFrom - a.validFrom is not positive.
StaysAhead(a, b) == a.validFrom >= b.validFrom

\* A faulty insertion that puts every definition first: C16 tells it from
\* the code's.
InsertAhead(sorted, d) == <<d>> \o sorted

\* Array.prototype.sort with the comparator b.validFrom - a.validFrom: a
\* stable sort, newest first.
RECURSIVE InsertByValidFrom(_, _)
InsertByValidFrom(sorted, d) ==
    IF sorted = << >> THEN <<d>>
    ELSE IF StaysAhead(Head(sorted), d)
    THEN <<Head(sorted)>> \o InsertByValidFrom(Tail(sorted), d)
    ELSE <<d>> \o sorted

RECURSIVE SortDefinitions(_)
SortDefinitions(definitions) ==
    IF definitions = << >> THEN << >>
    ELSE InsertByValidFrom(
             SortDefinitions(SubSeq(definitions, 1, Len(definitions) - 1)),
             definitions[Len(definitions)])

\* A faulty sortCredits that leaves the arrays as supplied: C6 tells it
\* from the code's.
LeaveAsSupplied(credits) == credits

\* sortCredits: every feature's array sorted (in place).
sortCredits(credits) ==
    [i \in 1..Len(credits) |->
        [slug |-> credits[i].slug,
         definitions |-> SortDefinitions(credits[i].definitions)]]

\* The instance's credits field: its arrays are the arrays it was built
\* from, those of the built-in table or those of the caller.
credits == IF inst.shared = "CREDITS" THEN CREDITS ELSE callerCredits

\* Names every plain object inherits from Object.prototype: credits[name]
\* is not null for them although they are no key of the table.
ObjectPrototypeNames == {"constructor", "toString"}

\* A faulty test of validity that leaves out the instant itself: C5 tells
\* it from the code's.
ValidBefore(c, date) == c.validFrom < date

\* The callback (c) => c.validFrom <= date.
ValidUpTo(c, date) == c.validFrom <= date

\* A faulty test of the version that accepts a later one: C8 tells it from
\* the code's.
VersionAtLeast(c, version) == c.version >= version

\* The callback (c) => c.version === version.
HasVersion(c, version) == c.version = version

\* Array.prototype.find with each of the two callbacks: the first element
\* that satisfies it.
RECURSIVE FindValidUpTo(_, _)
FindValidUpTo(definitions, date) ==
    IF definitions = << >> THEN [k |-> "undefined", def |-> NoCredit]
    ELSE IF ValidUpTo(Head(definitions), date)
    THEN [k |-> "definition", def |-> Head(definitions)]
    ELSE FindValidUpTo(Tail(definitions), date)

RECURSIVE FindVersion(_, _)
FindVersion(definitions, version) ==
    IF definitions = << >> THEN [k |-> "undefined", def |-> NoCredit]
    ELSE IF HasVersion(Head(definitions), version)
    THEN [k |-> "definition", def |-> Head(definitions)]
    ELSE FindVersion(Tail(definitions), version)

Thrown(msg, slug) ==
    [k |-> "throw", def |-> NoCredit, num |-> NaN, msg |-> msg, slug |-> slug]

Returned(found) ==
    [k |-> found.k, def |-> found.def, num |-> NaN, msg |-> "", slug |-> ""]

\* getDefinition(featureSlug) on an instance with the given credits and
\* target, called at instant clock.
getDefinition(creds, target, clock, featureSlug) ==
    IF featureSlug \notin Keys(creds) /\ featureSlug \notin ObjectPrototypeNames
    THEN Thrown("Feature not supported for credits", featureSlug)
    ELSE IF featureSlug \notin Keys(creds)
    THEN \* an inherited property: a function, not an array of definitions
         IF target.k = "latest"
         THEN Returned([k |-> "undefined", def |-> NoCredit])
         ELSE Thrown("TypeError: find is not a function", "")
    ELSE LET definitions == Lookup(creds, featureSlug)
         IN  IF target.k = "latest"
             THEN IF definitions = << >>
                  THEN Returned([k |-> "undefined", def |-> NoCredit])
                  ELSE Returned([k |-> "definition", def |-> definitions[1]])
             ELSE IF target.k = "number"
             THEN Returned(FindVersion(definitions, target.v))
             ELSE IF target.k = "Date"
             THEN Returned(FindValidUpTo(definitions, target.v))
             ELSE Returned(FindValidUpTo(definitions, clock))

-----------------------------------------------------------------------------
(* The pricing curve                                                       *)

ReturnedNumber(x) ==
    [k |-> "number", def |-> NoCredit, num |-> x, msg |-> "", slug |-> ""]

\* A faulty linear segment that starts from total = 0: C1 tells it from
\* the code's.
LinearPriceFromZero(pricing, total) ==
    IF pricing.discountThreshold = 1 THEN NaN
    ELSE Int2Num(RoundRat(
             pricing.firstDiscountPriceCents * (pricing.discountThreshold - 1)
               + (pricing.discountThresholdPriceCents
                    - pricing.firstDiscountPriceCents) * ToInt(total),
             pricing.discountThreshold - 1))

\* The linear segment: Math.round(first + ((thresholdPrice - first) /
\* (threshold - 1)) * (total - 1)).  With threshold = 1 the quotient is
\* x / 0 and its product with total - 1 = 0 is NaN.
LinearPrice(pricing, total) ==
    IF pricing.discountThreshold = 1 THEN NaN
    ELSE Int2Num(RoundRat(
             pricing.firstDiscountPriceCents * (pricing.discountThreshold - 1)
               + (pricing.discountThresholdPriceCents
                    - pricing.firstDiscountPriceCents) * (ToInt(total) - 1),
             pricing.discountThreshold - 1))

\* The asymptotic segment: Math.round(thresholdPrice *
\* Math.pow(1 - discountRate, Math.log10(total / threshold))).
AsymptoticPrice(pricing, total) ==
    RoundScaled(pricing.discountThresholdPriceCents,
                MathPow(pricing.discountRate.d - pricing.discountRate.n,
                        pricing.discountRate.d,
                        MathLog10Ratio(total, pricing.discountThreshold)))

QuantityOverflow ==
    "The provided quantity surpasses the maximum supported amount of credits"

\* A faulty comparison that lets a price of zero through: C2 tells it from
\* the code's.
IsNegative(result) == result < 0

\* The comparison that raises the overflow error.
IsOverflow(result) == result <= 0

\* The part of getCreditPrice after its preconditions.
CurvePrice(pricing, availableCredits, creditsToPurchase) ==
    LET total == NumAdd(availableCredits, creditsToPurchase)
    IN  IF creditsToPurchase = Int2Num(0) \/ total = Int2Num(0)
        THEN ReturnedNumber(Int2Num(0))
        ELSE IF NumLeq(total, Int2Num(pricing.discountThreshold))
        THEN ReturnedNumber(LinearPrice(pricing, total))
        ELSE LET result == AsymptoticPrice(pricing, total)
             IN  IF IsOverflow(result)
                 THEN Thrown(QuantityOverflow, "")
                 ELSE ReturnedNumber(Int2Num(result))

\* A faulty order of the preconditions, the signs before the wholeness of
\* the purchase: C10 tells it from the code's.
QuantityErrorSignsFirst(availableCredits, creditsToPurchase) ==
    IF ~IsInteger(availableCredits)
    THEN "Available credits must be a whole number"
    ELSE IF NumLess(availableCredits, Int2Num(0))
    THEN "Available credits must be greater than or equal to 0"
    ELSE IF ~IsInteger(creditsToPurchase)
    THEN "Credit purchase amount must be a whole number"
    ELSE IF NumLeq(creditsToPurchase, Int2Num(0))
    THEN "Credit purchase amount must be greater than 0"
    ELSE ""

\* Faulty preconditions that let a purchase of no credits through, to the
\* branch that returns 0: C28 tells them from the code's.
QuantityErrorBelowZero(availableCredits, creditsToPurchase) ==
    IF ~IsInteger(availableCredits)
    THEN "Available credits must be a whole number"
    ELSE IF ~IsInteger(creditsToPurchase)
    THEN "Credit purchase amount must be a whole number"
    ELSE IF NumLess(availableCredits, Int2Num(0))
    THEN "Available credits must be greater than or equal to 0"
    ELSE IF NumLess(creditsToPurchase, Int2Num(0))
    THEN "Credit purchase amount must be greater than 0"
    ELSE ""

\* The first precondition on the quantities that fails, "" when none does.
QuantityError(availableCredits, creditsToPurchase) ==
    IF ~IsInteger(availableCredits)
    THEN "Available credits must be a whole number"
    ELSE IF ~IsInteger(creditsToPurchase)
    THEN "Credit purchase amount must be a whole number"
    ELSE IF NumLess(availableCredits, Int2Num(0))
    THEN "Available credits must be greater than or equal to 0"
    ELSE IF NumLeq(creditsToPurchase, Int2Num(0))
    THEN "Credit purchase amount must be greater than 0"
    ELSE ""

\* getCreditPrice(featureSlug, availableCredits, creditsToPurchase).
getCreditPrice(creds, target, clock, featureSlug, availableCredits, creditsToPurchase) ==
    LET invalid == QuantityError(availableCredits, creditsToPurchase)
        pricing == getDefinition(creds, target, clock, featureSlug)
    IN  IF invalid # "" THEN Thrown(invalid, "")
        ELSE IF pricing.k = "throw" THEN pricing
        ELSE IF pricing.k = "undefined"
        THEN Thrown("Requested feature not allowed for credit usage", "")
        ELSE CurvePrice(pricing.def, availableCredits, creditsToPurchase)

\* A faulty getCreditTotalPrice that returns the unit price: C4 tells it
\* from the code's.
UnitPriceOnly(creds, target, clock, featureSlug, availableCredits, creditsToPurchase) ==
    getCreditPrice(creds, target, clock, featureSlug, availableCredits,
                   creditsToPurchase)

\* getCreditTotalPrice: Math.round(getCreditPrice(...) * creditsToPurchase).
getCreditTotalPrice(creds, target, clock, featureSlug, availableCredits, creditsToPurchase) ==
    LET price == getCreditPrice(creds, target, clock, featureSlug,
                                availableCredits, creditsToPurchase)
    IN  IF price.k = "throw" THEN price
        ELSE ReturnedNumber(MathRound(NumMul(price.num, creditsToPurchase)))

\* -x.
NumNeg(x) == IF x.k = "NaN" THEN NaN ELSE [x EXCEPT !.m = -x.m]

\* -Infinity, which a division by zero yields and Math.round leaves as is.
NegInfinity == [k |-> "-Infinity", m |-> 0, e |-> 0]

\* Whether n is a power of two, by which a double is divided exactly.
RECURSIVE IsPowerOfTwo(_)
IsPowerOfTwo(n) ==
    n = 1 \/ (n > 1 /\ n % 2 = 0 /\ IsPowerOfTwo(n \div 2))

\* The values Math.round((n / d) * 100) can take for integers n and d # 0:
\* the integer nearest to 100 * n / d, and at a tie of the exact value
\* either neighbour, since the quotient n / d is rounded to a double before
\* it is multiplied (0.995 * 100 is 99.5 and rounds to 100,
\* 1.005 * 100 is 100.49999999999999 and rounds to 100).  Where d is a
\* power of two the quotient and the product are exact, and Math.round
\* takes the tie up.
RoundPercent(n, d) ==
    LET num == IF d < 0 THEN -(100 * n) ELSE 100 * n
        den == IF d < 0 THEN -d ELSE d
        up == RoundRat(num, den)
    IN  IF (2 * num) % (2 * den) = den /\ ~IsPowerOfTwo(den)
        THEN {up - 1, up} ELSE {up}

\* A faulty getDiscountOverDynamic that reports no discount where the unit
\* price cannot be had: C20 tells it from the code's.
DiscountOrNone(creds, target, clock, featureSlug, availableCredits, creditsToPurchase, dynamicPriceCents) ==
    {ReturnedNumber(Int2Num(0))}

\* getDiscountOverDynamic: Math.round(((dynamicPriceCents -
\* getCreditPrice(...)) / dynamicPriceCents) * 100), the results it can
\* have, for a dynamicPriceCents that is an integer or NaN.  With a
\* dynamicPriceCents of 0 the quotient is -Infinity, the unit price being
\* positive.
getDiscountOverDynamic(creds, target, clock, featureSlug, availableCredits, creditsToPurchase, dynamicPriceCents) ==
    LET price == getCreditPrice(creds, target, clock, featureSlug,
                                availableCredits, creditsToPurchase)
    IN  IF price.k = "throw" THEN {price}
        ELSE IF price.num.k = "NaN" \/ dynamicPriceCents.k = "NaN"
        THEN {ReturnedNumber(NaN)}
        ELSE IF dynamicPriceCents.m = 0 THEN {ReturnedNumber(NegInfinity)}
        ELSE {ReturnedNumber(Int2Num(v)) :
                v \in RoundPercent(ToInt(dynamicPriceCents) - ToInt(price.num),
                                   ToInt(dynamicPriceCents))}

\* A faulty getTotalSavings that returns the savings on one credit: C19
\* tells it from the code's.
SavingsPerCredit(creds, target, clock, featureSlug, availableCredits, creditsToPurchase, dynamicPriceCents) ==
    LET price == getCreditPrice(creds, target, clock, featureSlug,
                                availableCredits, creditsToPurchase)
    IN  IF price.k = "throw" THEN price
        ELSE ReturnedNumber(MathRound(NumAdd(dynamicPriceCents,
                                             NumNeg(price.num))))

\* getTotalSavings: Math.round(creditsToPurchase * (dynamicPriceCents -
\* getCreditPrice(...))).
getTotalSavings(creds, target, clock, featureSlug, availableCredits, creditsToPurchase, dynamicPriceCents) ==
    LET price == getCreditPrice(creds, target, clock, featureSlug,
                                availableCredits, creditsToPurchase)
    IN  IF price.k = "throw" THEN price
        ELSE ReturnedNumber(MathRound(
                 NumMul(creditsToPurchase,
                        NumAdd(dynamicPriceCents, NumNeg(price.num)))))

-----------------------------------------------------------------------------
(* The quantity range of a unit cost                                       *)

\* A real number known to lie within eps / d of n / d: a quotient of
\* integers is known exactly (eps = 0), a value reached through Math.log10
\* and ** only to the precision of the fixed-point arithmetic.
Approx(n, d, eps) ==
    IF d < 0 THEN [n |-> -n, d |-> -d, eps |-> eps]
    ELSE [n |-> n, d |-> d, eps |-> eps]

\* The exponent of 2 in the closed form of the asymptotic segment solved
\* for the quantity, for unitCost = twice / 2 < thresholdPrice:
\* Math.log10(unitCost / thresholdPrice) / Math.log10(1 - discountRate)
\* * log2(10), in fixed point.
AmountExponent(pricing, twice) ==
    LET lu == Log2Int(2 * pricing.discountThresholdPriceCents) - Log2Int(twice)
        lr == Log2Int(pricing.discountRate.d)
                - Log2Int(pricing.discountRate.d - pricing.discountRate.n)
    IN  FixMul(FixDiv(lu, lr), Log2Of10)

\* The quantities the arithmetic of the model can hold: below 2^17.
WordBits == 18

\* Whether getCreditAmount(pricing, twice / 2) is a quantity the model can
\* hold.
AmountFits(pricing, twice) ==
    \/ twice >= 2 * pricing.discountThresholdPriceCents
    \/ LET k == AmountExponent(pricing, twice) \div Unit
       IN  /\ k + 1 < WordBits
           /\ pricing.discountThreshold * Pow2(k + 1) < Pow2(WordBits)

\* getCreditAmount(pricing, unitCost) for unitCost = twice / 2 (the callers
\* pass unitCost + 0.5 and unitCost - 0.5).  The linear segment solved for
\* the quantity is a quotient of integers; the asymptotic segment is
\* discountThreshold * 2^z = discountThreshold * 2^(k + 1) * 2^(-(1 - f)),
\* k and f the whole and the fractional part of the exponent z, held with
\* 12 fractional bits.
getCreditAmount(pricing, twice) ==
    IF twice >= 2 * pricing.discountThresholdPriceCents
    THEN LET den == 2 * (pricing.discountThresholdPriceCents
                           - pricing.firstDiscountPriceCents)
         IN  Approx((twice - 2 * pricing.firstDiscountPriceCents)
                       * (pricing.discountThreshold - 1) + den, den, 0)
    ELSE LET z == AmountExponent(pricing, twice)
             scale == pricing.discountThreshold * Pow2((z \div Unit) + 1)
             v == Exp2Neg(Unit - (z % Unit))
             w == (scale * (v \div Limb)) + ((scale * (v % Limb)) \div Limb)
         IN  Approx(w, Limb, (w \div Pow2(FracBits - 5)) + 2)

\* The values Math.ceil and Math.floor can take on a number known to the
\* precision of Approx.
MathCeil(x) ==
    {-((-(x.n - x.eps)) \div x.d), -((-(x.n + x.eps)) \div x.d)}

MathFloor(x) == {(x.n - x.eps) \div x.d, (x.n + x.eps) \div x.d}

\* A CreditRange: each bound with whether the property is set.
Range(hasFrom, from, hasTo, to) ==
    [k |-> "range", def |-> NoCredit, num |-> NaN, msg |-> "", slug |-> "",
     hasFrom |-> hasFrom, from |-> from, hasTo |-> hasTo, to |-> to]

\* fixRange(featureSlug, lowerUnitCost, amount): credits are added while
\* the unit cost is above the lower one (the first loop), then taken away
\* while it is the lower one (the second loop, goingBack).  The unit cost
\* is this.getCreditPrice(featureSlug, 0, fixed), whose error ends the call.
RECURSIVE fixRange(_, _, _, _, _, _, _)
fixRange(creds, target, clock, featureSlug, lowerUnitCost, fixed, goingBack) ==
    LET unitCost == getCreditPrice(creds, target, clock, featureSlug,
                                   Int2Num(0), Int2Num(fixed))
    IN  IF unitCost.k = "throw" THEN unitCost
        ELSE IF ~goingBack /\ NumLess(Int2Num(lowerUnitCost), unitCost.num)
        THEN fixRange(creds, target, clock, featureSlug, lowerUnitCost,
                      fixed + 1, FALSE)
        ELSE IF unitCost.num = Int2Num(lowerUnitCost)
        THEN fixRange(creds, target, clock, featureSlug, lowerUnitCost,
                      fixed - 1, TRUE)
        ELSE ReturnedNumber(Int2Num(fixed))

\* The test of getCreditRange that a bound needs no correction: the bound
\* prices at unitCost and its neighbour (the quantity before `from`, after
\* `to`) at nextCost; 1 when it does, 0 when not.  The neighbour is priced
\* only when the bound prices at unitCost; a price that throws ends the
\* call with its error.
BoundIsRight(creds, target, clock, featureSlug, bound, unitCost, neighbour, nextCost) ==
    LET price == [n \in {bound, neighbour} |->
                    getCreditPrice(creds, target, clock, featureSlug,
                                   Int2Num(0), n)]
    IN  IF price[bound].k = "throw" THEN price[bound]
        ELSE IF price[bound].num # Int2Num(unitCost)
        THEN ReturnedNumber(Int2Num(0))
        ELSE IF price[neighbour].k = "throw" THEN price[neighbour]
        ELSE IF price[neighbour].num # Int2Num(nextCost)
        THEN ReturnedNumber(Int2Num(0))
        ELSE ReturnedNumber(Int2Num(1))

\* A faulty test that computes no `from` one cent below the first discount
\* price: C14 tells it from the code's.
HasFromBelowFirst(unitCost, first) == unitCost < first - 1

\* `from` is computed only for a unit cost below the first discount price.
HasFrom(unitCost, first) == unitCost < first

\* `to` is computed only for a unit cost above one cent.
HasTo(unitCost) == unitCost > 1

\* The first precondition on the unit cost that fails, "" when none does.
UnitCostError(unitCost) ==
    IF ~IsInteger(unitCost) THEN "Unit cost must be a whole number"
    ELSE IF NumLeq(unitCost, Int2Num(0))
    THEN "Unit cost must be greater than 0"
    ELSE ""

\* What the correction of a bound yields: the bound as estimated when the
\* test finds it right, the corrected one when not, the error of a price
\* that throws on the way.
Corrected(right, bound0, fixed, side) ==
    IF right.k = "throw" THEN right
    ELSE IF right.num = Int2Num(1) THEN ReturnedNumber(Int2Num(bound0))
    ELSE IF fixed.k = "throw" \/ side # 1 THEN fixed
    ELSE ReturnedNumber(NumAdd(fixed.num, Int2Num(1)))

\* A bound of getCreditRange after its correction.  For `from` (side 1)
\* bound0 is Math.ceil(getCreditAmount(pricing, unitCost + 0.5)), its
\* neighbour the quantity before it, and the correction
\* fixRange(featureSlug, unitCost, from) + 1; for `to` (side -1) bound0 is
\* Math.floor(getCreditAmount(pricing, unitCost - 0.5)), its neighbour the
\* quantity after it, and the correction
\* fixRange(featureSlug, unitCost - 1, to).  A bound of 0 is left alone.
FixedBound(creds, target, clock, featureSlug, cost, bound0, side) ==
    IF bound0 = 0 THEN ReturnedNumber(Int2Num(bound0))
    ELSE Corrected(BoundIsRight(creds, target, clock, featureSlug,
                                Int2Num(bound0), cost,
                                Int2Num(bound0 - side), cost + side),
                   bound0,
                   fixRange(creds, target, clock, featureSlug,
                            IF side = 1 THEN cost ELSE cost - 1, bound0,
                            FALSE),
                   side)

\* The CreditRange returned once both bounds are corrected, `from` (at 1)
\* before `to` (at -1), or the error that ended the call.
RangeOf(hasFrom, hasTo, bound) ==
    IF bound[1].k = "throw" THEN bound[1]
    ELSE IF bound[-1].k = "throw" THEN bound[-1]
    ELSE Range(hasFrom, ToInt(bound[1].num), hasTo, ToInt(bound[-1].num))

\* The part of getCreditRange after its preconditions.
BoundsOf(creds, target, clock, featureSlug, first, cost, from0, to0) ==
    RangeOf(HasFrom(cost, first), HasTo(cost),
            [side \in {1, -1} |->
               IF (side = 1 /\ HasFrom(cost, first))
                  \/ (side = -1 /\ HasTo(cost))
               THEN FixedBound(creds, target, clock, featureSlug, cost,
                               IF side = 1 THEN from0 ELSE to0, side)
               ELSE ReturnedNumber(Int2Num(0))])

\* What getCreditRange does with the definition it resolved.
RangeFor(creds, target, clock, featureSlug, pricing, unitCost, from0, to0) ==
    IF pricing.k = "throw" THEN pricing
    ELSE IF pricing.k = "undefined"
    THEN Thrown("Requested feature not allowed for credit usage", "")
    ELSE IF ToInt(unitCost) > pricing.def.firstDiscountPriceCents
    THEN Thrown("Unit cost cannot be greater than "
                  \o ToString(pricing.def.firstDiscountPriceCents), "")
    ELSE BoundsOf(creds, target, clock, featureSlug,
                  pricing.def.firstDiscountPriceCents, ToInt(unitCost),
                  from0, to0)

\* getCreditRange(featureSlug, unitCost), from0 and to0 being the values of
\* Math.ceil(getCreditAmount(pricing, unitCost + 0.5)) and of
\* Math.floor(getCreditAmount(pricing, unitCost - 0.5)) where the call
\* computes them.
getCreditRange(creds, target, clock, featureSlug, unitCost, from0, to0) ==
    IF UnitCostError(unitCost) # "" THEN Thrown(UnitCostError(unitCost), "")
    ELSE RangeFor(creds, target, clock, featureSlug,
                  getDefinition(creds, target, clock, featureSlug),
                  unitCost, from0, to0)

\* The values Math.ceil(getCreditAmount(pricing, unitCost + 0.5)) can take
\* where getCreditRange computes it, 0 standing in where it does not.
FromEstimates(creds, target, clock, featureSlug, unitCost) ==
    LET pricing == getDefinition(creds, target, clock, featureSlug)
    IN  IF /\ UnitCostError(unitCost) = ""
           /\ pricing.k = "definition"
           /\ ToInt(unitCost) <= pricing.def.firstDiscountPriceCents
           /\ HasFrom(ToInt(unitCost), pricing.def.firstDiscountPriceCents)
        THEN MathCeil(getCreditAmount(pricing.def, 2 * ToInt(unitCost) + 1))
        ELSE {0}

\* The values Math.floor(getCreditAmount(pricing, unitCost - 0.5)) can take
\* where getCreditRange computes it, 0 standing in where it does not.
ToEstimates(creds, target, clock, featureSlug, unitCost) ==
    LET pricing == getDefinition(creds, target, clock, featureSlug)
    IN  IF /\ UnitCostError(unitCost) = ""
           /\ pricing.k = "definition"
           /\ ToInt(unitCost) <= pricing.def.firstDiscountPriceCents
           /\ HasTo(ToInt(unitCost))
        THEN MathFloor(getCreditAmount(pricing.def, 2 * ToInt(unitCost) - 1))
        ELSE {0}

\* Whether the estimates of a call are quantities the model can hold.
EstimatesFit(creds, target, clock, featureSlug, unitCost) ==
    LET pricing == getDefinition(creds, target, clock, featureSlug)
    IN  (/\ UnitCostError(unitCost) = ""
         /\ pricing.k = "definition"
         /\ ToInt(unitCost) <= pricing.def.firstDiscountPriceCents)
        => /\ AmountFits(pricing.def, 2 * ToInt(unitCost) + 1)
           /\ HasTo(ToInt(unitCost))
                => AmountFits(pricing.def, 2 * ToInt(unitCost) - 1)

\* Whether a double is so large that adding or taking away 1 leaves it
\* unchanged: from 2^54 on the doubles are multiples of 4 and the sum rounds
\* back to the number itself; the model takes the numbers of 10^17 and more.
Absorbs(x) == x.k = "num" /\ Digits(x.m) + x.e > 17

\* fixed + step as the double arithmetic of fixRange and of the tests of
\* getCreditRange gives it, step being 1 or -1.
JsPlus(x, step) == IF Absorbs(x) THEN x ELSE NumAdd(x, Int2Num(step))

\* m * 10^e * 2^j, the mantissa cut to what a machine word holds.
RECURSIVE TimesPow2(_, _, _)
TimesPow2(m, e, j) ==
    IF j <= 0 THEN Norm(m, e)
    ELSE IF m >= Pow10(8) THEN TimesPow2(m \div 10, e + 1, j)
    ELSE TimesPow2(2 * m, e, j - 1)

\* getCreditAmount(pricing, twice / 2) on the asymptotic segment where the
\* quantity is beyond a machine word: discountThreshold * 2^z as a decimal
\* number, to three digits or more.  At this size the double is a whole
\* number, which Math.ceil and Math.floor leave alone.
BigAmount(pricing, twice) ==
    LET z == AmountExponent(pricing, twice)
        v == Exp2Neg(Unit - (z % Unit))
    IN  TimesPow2(pricing.discountThreshold * (v \div Limb), 0,
                  (z \div Unit) + 1 - 12)

\* The values an estimate of getCreditRange can take, as numbers: those of
\* the arithmetic of the machine word where the quantity fits it, the large
\* one where not.  computed tells whether the call computes the estimate
\* from pricing at twice / 2; ests is FromEstimates or ToEstimates of the
\* call, 0 where the estimate is not computed.
EstimateNums(computed, pricing, twice, ests) ==
    IF computed /\ ~AmountFits(pricing, twice)
    THEN {BigAmount(pricing, twice)}
    ELSE {Int2Num(n) : n \in ests}

\* Whether an estimate is a number the model can step: one that fits the
\* machine word, or one so large that a step of 1 is absorbed.
Steppable(computed, pricing, twice) ==
    computed => \/ AmountFits(pricing, twice)
                \/ Absorbs(BigAmount(pricing, twice))

\* A call of getCreditRange that is inside fixRange: the bound being
\* corrected (side 1 for `from`, -1 for `to`), the variables fixed (num) and
\* unitCost of fixRange, its lower unit cost, which loop it is in, where it
\* stands (pc: "price" before unitCost = this.getCreditPrice(...), "test"
\* before the test of a loop, "return" at return fixed), and creditRange so
\* far.
Fixing(side, lower, fixed, goingBack, cost, range) ==
    [k |-> "fixRange", def |-> NoCredit, num |-> fixed, msg |-> "",
     slug |-> "", side |-> side, lower |-> lower, goingBack |-> goingBack,
     pc |-> "price", unitCost |-> NaN, cost |-> cost, range |-> range]

\* getCreditRange from the test of a bound on, right being what the test
\* gave: the bound is kept when it is absent, 0 or right, and fixRange is
\* entered when not.  After `from` comes `to`, after `to` the return of
\* creditRange.
RECURSIVE BoundTested(_, _, _, _, _, _, _, _)
BoundTested(right, creds, target, clock, featureSlug, cost, range, side) ==
    IF right.k = "throw" THEN right
    ELSE IF right.num # Int2Num(1)
    THEN Fixing(side, IF side = 1 THEN cost ELSE cost - 1,
                IF side = 1 THEN range.from ELSE range.to, FALSE, cost, range)
    ELSE IF side = -1 THEN range
    ELSE BoundTested(
             IF range.hasTo /\ range.to # Int2Num(0)
             THEN BoundIsRight(creds, target, clock, featureSlug, range.to,
                               cost, JsPlus(range.to, 1), cost - 1)
             ELSE ReturnedNumber(Int2Num(1)),
             creds, target, clock, featureSlug, cost, range, -1)

\* getCreditRange from the test of `from` on.
TestFrom(creds, target, clock, featureSlug, cost, range) ==
    BoundTested(
        IF range.hasFrom /\ range.from # Int2Num(0)
        THEN BoundIsRight(creds, target, clock, featureSlug, range.from, cost,
                          JsPlus(range.from, -1), cost + 1)
        ELSE ReturnedNumber(Int2Num(1)),
        creds, target, clock, featureSlug, cost, range, 1)

\* unitCost = this.getCreditPrice(featureSlug, 0, fixed) in fixRange, for
\* the call in frame f: an error ends the call.
FixRangePriced(creds, target, clock, featureSlug, f) ==
    LET unitCost == getCreditPrice(creds, target, clock, featureSlug,
                                   Int2Num(0), f.num)
    IN  IF unitCost.k = "throw" THEN unitCost
        ELSE [f EXCEPT !.unitCost = unitCost.num, !.pc = "test"]

\* The test of a loop of fixRange and the step it leads to: above the lower
\* unit cost in the first loop a credit is added, at the lower unit cost one
\* is taken away, and otherwise fixRange returns.
FixRangeTurned(f) ==
    IF ~f.goingBack /\ NumLess(Int2Num(f.lower), f.unitCost)
    THEN [f EXCEPT !.num = JsPlus(f.num, 1), !.pc = "price"]
    ELSE IF f.unitCost = Int2Num(f.lower)
    THEN [f EXCEPT !.num = JsPlus(f.num, -1), !.goingBack = TRUE,
                   !.pc = "price"]
    ELSE [f EXCEPT !.pc = "return"]

\* getCreditRange from the return of fixRange on: `from` is the value
\* returned and 1, and the test of `to` follows; `to` is the value returned,
\* and creditRange is returned.
FixRangeReturned(creds, target, clock, featureSlug, f) ==
    IF f.side = 1
    THEN BoundTested(ReturnedNumber(Int2Num(1)), creds, target, clock,
                     featureSlug, f.cost,
                     [f.range EXCEPT !.from = JsPlus(f.num, 1)], 1)
    ELSE [f.range EXCEPT !.to = f.num]

\* getCreditRange after its preconditions, checked being a CreditRange
\* with the bounds the call computes, or the error of a precondition.
EnterChecked(checked, creds, target, clock, featureSlug, cost, from0, to0) ==
    IF checked.k = "throw" THEN checked
    ELSE TestFrom(creds, target, clock, featureSlug, cost,
                  Range(checked.hasFrom, from0, checked.hasTo, to0))

\* getCreditRange up to its first turn in fixRange, from0 and to0 being the
\* estimates as numbers: the preconditions, then the tests of the bounds.
\* The preconditions, and which bounds creditRange has, are read off
\* getCreditRange taken with estimates of 0, which it leaves alone.
EnterRange(creds, target, clock, featureSlug, unitCost, from0, to0) ==
    EnterChecked(getCreditRange(creds, target, clock, featureSlug, unitCost,
                                0, 0),
                 creds, target, clock, featureSlug,
                 IF IsInteger(unitCost) THEN ToInt(unitCost) ELSE 0,
                 from0, to0)

\* Whether getCreditRange computes the estimate of a bound (side 1 for
\* `from`, -1 for `to`) from pricing, the definition it resolved.
Estimated(pricing, unitCost, side) ==
    /\ UnitCostError(unitCost) = ""
    /\ pricing.k = "definition"
    /\ ToInt(unitCost) <= pricing.def.firstDiscountPriceCents
    /\ IF side = 1
       THEN HasFrom(ToInt(unitCost), pricing.def.firstDiscountPriceCents)
       ELSE HasTo(ToInt(unitCost))

-----------------------------------------------------------------------------
(* Inputs: the definitions, options and quantities the operations are      *)
(* called with                                                             *)

MaxTime == 2        \* the clock and the validFrom instants range over 0..MaxTime
MaxVersion == 2     \* the versions of the enumerated definitions: 1..MaxVersion
MaxDefs == 2        \* the longest enumerated definition sequence
MaxHeld == 2        \* availableCredits ranges over 0..MaxHeld (and more)
MaxPurchase == 13   \* creditsToPurchase ranges over 0..MaxPurchase (and more)
MaxUnitCost == 10   \* unitCost ranges over 0..MaxUnitCost (and more)

FEATURE_SLUG == "foo:bar"

\* The pricing parameters of the test suite's definitions, by version; past
\* version 3, those of its sorting test (a threshold of 1).
Definition(version, validFrom) ==
    CASE version = 1 -> Credit(1, validFrom, 148, 33, 100, 12000, 124)
      [] version = 2 -> Credit(2, validFrom, 199, 33, 100, 12000, 150)
      [] version = 3 -> Credit(3, validFrom, 209, 33, 100, 12000, 149)
      [] OTHER -> Credit(version, validFrom, 1, 1, 10, 1, 1)

\* TEST_CREDITS of the test suite, whose clock reads 2: foo:bar has two
\* versions in effect and one to come, buz:baz has one to come.
TEST_CREDITS ==
    << [slug |-> "foo:bar",
        definitions |-> << Definition(1, 0), Definition(2, 1), Definition(3, 3) >>],
       [slug |-> "buz:baz",
        definitions |-> << Credit(1, 3, 189, 33, 100, 12000, 149) >>] >>

\* A definition with a short linear segment and a steep decay, so that both
\* segments and the overflow are met at small quantities.
SMALL_CREDITS ==
    << [slug |-> "foo:bar",
        definitions |-> << Credit(1, 0, 9, 99, 100, 4, 4) >>] >>

\* The second default definition with a discount rate of 0.2: the price
\* falls to one cent only at quantities beyond 2^54.
SLOW_CREDITS ==
    << [slug |-> "foo:bar",
        definitions |-> << Credit(1, 0, 199, 20, 100, 12000, 150) >>] >>

\* The definitions of the test "should sort credit pricing definitions".
SORT_CREDITS ==
    << [slug |-> "foo:bar",
        definitions |-> << Credit(2, 2, 1, 1, 10, 1, 1),
                           Credit(3, 3, 1, 1, 10, 1, 1),
                           Credit(1, 1, 1, 1, 10, 1, 1) >>] >>

Current == [k |-> "current", v |-> 0]
Latest == [k |-> "latest", v |-> 0]
Number(v) == [k |-> "number", v |-> v]
Date(t) == [k |-> "Date", v |-> t]

WithCredits(c, t) ==
    [hasCredits |-> TRUE, credits |-> c, hasTarget |-> TRUE, target |-> t]

\* new CreditPricing() and new CreditPricing({ credits }).
Defaults ==
    [hasCredits |-> FALSE, credits |-> << >>, hasTarget |-> FALSE,
     target |-> Current]

WithoutTarget(c) ==
    [hasCredits |-> TRUE, credits |-> c, hasTarget |-> FALSE, target |-> Current]

\* Every sequence of at most MaxDefs definitions of foo:bar, in every order,
\* duplicates of a version or of a validFrom included.
DefinitionPool ==
    {Definition(v, t) : v \in 1..MaxVersion, t \in 0..MaxTime}

DefinitionSeqs == UNION {[1..n -> DefinitionPool] : n \in 0..MaxDefs}

AllTargets ==
    {Current, Latest} \cup {Number(v) : v \in 1..(MaxVersion + 1)}
                      \cup {Date(t) : t \in 0..MaxTime}

\* The definitions of the test "should sort credit pricing definitions" in
\* each of their orders.
SortOrders ==
    {[i \in 1..3 |-> SORT_CREDITS[1].definitions[p[i]]] :
        p \in Permutations(1..3)}

SelectorOptions ==
    {WithCredits(<< [slug |-> FEATURE_SLUG, definitions |-> s] >>, t) :
        s \in DefinitionSeqs, t \in AllTargets}
    \cup {WithoutTarget(<< [slug |-> FEATURE_SLUG, definitions |-> s] >>) :
            s \in SortOrders}
    \cup {Defaults}
    \cup {WithoutTarget(<< [slug |-> FEATURE_SLUG, definitions |-> s] >>) :
            s \in DefinitionSeqs}

PricingOptions ==
    {WithCredits(TEST_CREDITS, t) : t \in {Current, Latest, Number(1)}}
    \cup {WithCredits(SMALL_CREDITS, Current), WithoutTarget(SORT_CREDITS),
          Defaults}

CallSlugs == {"foo:bar", "buz:baz", "device:microservices", "constructor"}

PricedSlugs == {"foo:bar", "buz:baz", "buz-bar", "constructor"}

NotWhole == {NaN, Frac(105, 1)}

HeldInputs ==
    NotWhole \cup {Int2Num(n) : n \in (-1)..MaxHeld} \cup {Int2Num(12000)}

PurchaseInputs ==
    NotWhole \cup {Int2Num(n) : n \in (-1)..MaxPurchase}
             \cup {Int2Num(n) : n \in {368, 369, 12000, 12001, 1000000}}

\* Definitions over the shapes the data model allows: a first price above
\* the threshold price, a threshold of 1, of 2 and of the test suite's
\* 12000, a slow and a steep decay.
CurvePool ==
    {Credit(1, 0, fp[1], rn, 100, threshold, fp[2]) :
        fp \in {<<9, 4>>, <<200, 4>>, <<200, 100>>},
        threshold \in {1, 2, 12000},
        rn \in {33, 99}}

CurveOptions ==
    {WithCredits(<< [slug |-> FEATURE_SLUG, definitions |-> <<d>>] >>, Current) :
        d \in CurvePool}

\* The quantities and the dynamic prices of the comparisons with dynamic
\* pricing: those of the tests (held 0 and the threshold, 1000 and 2470000
\* bought, a dynamic price of 200), the ones getCreditPrice rejects, and
\* dynamic prices at, below and above the unit prices.
DynamicHeldInputs == NotWhole \cup {Int2Num(n) : n \in {-1, 0, 12000}}

DynamicPurchaseInputs ==
    NotWhole \cup {Int2Num(n) : n \in {-1, 0, 1, 4, 12, 1000, 2470000}}

DynamicPriceInputs ==
    {NaN} \cup {Int2Num(n) : n \in {-100, 0, 1, 8, 195, 199, 200}}

\* The unit costs getCreditRange is asked for: the small ones, and those
\* about the first and the threshold prices of the definitions.
UnitCostInputs ==
    NotWhole \cup {Int2Num(n) : n \in (-1)..MaxUnitCost}
             \cup {Int2Num(n) : n \in {100, 120, 140} \cup 123..126
                                      \cup 147..151 \cup 188..190
                                      \cup 198..200 \cup 208..210}

-----------------------------------------------------------------------------
(* The instance and the calls on it                                        *)

NoError == [msg |-> "", slug |-> "", version |-> 0, validFrom |-> toISOString(0)]

NoInstance ==
    [state |-> "none", shared |-> "caller", target |-> Current,
     error |-> NoError, options |-> Defaults]

NoCall ==
    [op |-> "none", slug |-> "", a |-> NaN, c |-> NaN, dyn |-> NaN, at |-> 0,
     res |-> Thrown("", "")]

Idle == [pc |-> "idle", i |-> 1, hasLast |-> FALSE, lastResult |-> NaN, error |-> ""]

Init ==
    /\ CREDITS = DeclaredCREDITS
    /\ callerCredits = << >>
    /\ inst = NoInstance
    /\ now = 0
    /\ last = NoCall
    /\ run = Idle

\* new CreditPricing(options): sort, then validate, then set the target.
\* The sort is in place; a failed validation throws out of the constructor.
Constructor(options) ==
    /\ inst.state = "none"
    /\ LET sorted == sortCredits(IF options.hasCredits THEN options.credits
                                 ELSE CREDITS)
           e == validateCredits(sorted)
       IN  /\ IF options.hasCredits
              THEN callerCredits' = sorted /\ UNCHANGED CREDITS
              ELSE CREDITS' = sorted /\ UNCHANGED callerCredits
           /\ inst' = [state |-> IF e.msg = "" THEN "ok" ELSE "failed",
                       shared |-> IF options.hasCredits THEN "caller"
                                  ELSE "CREDITS",
                       target |-> IF e.msg = "" /\ options.hasTarget
                                  THEN options.target ELSE Current,
                       error |-> e,
                       options |-> options]
    /\ UNCHANGED <<now, last, run>>

\* Time passes.  The growth loop runs to its end within one instant, and
\* the clock is not followed further once a price has been computed.
Tick ==
    /\ now < MaxTime
    /\ run.pc = "idle"
    /\ last.op \in {"none", "getDefinition"}
    /\ now' = now + 1
    /\ UNCHANGED <<CREDITS, callerCredits, inst, last, run>>

\* A faulty call that leaves the instance with the target 'latest': C29
\* tells it from the code's.
CallSetsLatest(op, slug, a, c, res) ==
    /\ inst.state = "ok"
    /\ run.pc = "idle"
    /\ last' = [op |-> op, slug |-> slug, a |-> a, c |-> c, dyn |-> NaN,
                at |-> now, res |-> res]
    /\ inst' = [inst EXCEPT !.target = Latest]
    /\ UNCHANGED <<CREDITS, callerCredits, now, run>>

\* A call of a method: it leaves the instance as it is.
Call(op, slug, a, c, res) ==
    /\ inst.state = "ok"
    /\ run.pc = "idle"
    /\ last' = [op |-> op, slug |-> slug, a |-> a, c |-> c, dyn |-> NaN,
                at |-> now, res |-> res]
    /\ UNCHANGED <<CREDITS, callerCredits, inst, now, run>>

\* A call that is given a dynamic price as well.
CallDynamic(op, slug, a, c, dyn, res) ==
    /\ inst.state = "ok"
    /\ run.pc = "idle"
    /\ last' = [op |-> op, slug |-> slug, a |-> a, c |-> c, dyn |-> dyn,
                at |-> now, res |-> res]
    /\ UNCHANGED <<CREDITS, callerCredits, inst, now, run>>

\* A faulty getDefinition that goes by the clock as it read when the
\* program started: C30 tells it from the code's.
GetDefinitionAtStart(slug) ==
    Call("getDefinition", slug, NaN, NaN,
         getDefinition(credits, inst.target, 0, slug))

\* getDefinition(featureSlug): new Date() is the clock at the call.
GetDefinition(slug) ==
    Call("getDefinition", slug, NaN, NaN,
         getDefinition(credits, inst.target, now, slug))

\* The caller changes an array it passed to the constructor, here by
\* definitions.shift().  sortCredits stored definitions.sort(...), which is
\* that very array, in the instance.
CallerChanges ==
    /\ inst.state = "ok"
    /\ inst.shared = "caller"
    /\ \E i \in 1..Len(callerCredits) :
          /\ callerCredits[i].definitions # << >>
          /\ callerCredits' =
                [callerCredits EXCEPT ![i].definitions = Tail(@)]
    /\ UNCHANGED <<CREDITS, inst, now, last, run>>

\* A pricing call is the first call on its instance.
GetCreditPrice(slug, a, c) ==
    /\ last = NoCall
    /\ Call("getCreditPrice", slug, a, c,
            getCreditPrice(credits, inst.target, now, slug, a, c))

GetCreditTotalPrice(slug, a, c) ==
    /\ last = NoCall
    /\ Call("getCreditTotalPrice", slug, a, c,
            getCreditTotalPrice(credits, inst.target, now, slug, a, c))

\* getCreditRange, with each estimate one of the values the arithmetic of
\* the build can give it.
GetCreditRange(slug, unitCost) ==
    /\ last = NoCall
    /\ inst.state = "ok"
    /\ EstimatesFit(credits, inst.target, now, slug, unitCost)
    /\ \E from0 \in FromEstimates(credits, inst.target, now, slug, unitCost),
          to0 \in ToEstimates(credits, inst.target, now, slug, unitCost) :
          Call("getCreditRange", slug, unitCost, NaN,
               getCreditRange(credits, inst.target, now, slug, unitCost,
                              from0, to0))

\* getCreditRange on the definition it resolves, up to its first turn in
\* fixRange or, when it meets none, to its end.
EnterPriced(pricing, slug, unitCost, twiceFrom, twiceTo) ==
    /\ Steppable(Estimated(pricing, unitCost, 1), pricing.def, twiceFrom)
    /\ Steppable(Estimated(pricing, unitCost, -1), pricing.def, twiceTo)
    /\ \E from0 \in EstimateNums(Estimated(pricing, unitCost, 1), pricing.def,
                                 twiceFrom,
                                 FromEstimates(credits, inst.target, now,
                                               slug, unitCost)),
          to0 \in EstimateNums(Estimated(pricing, unitCost, -1), pricing.def,
                               twiceTo,
                               ToEstimates(credits, inst.target, now, slug,
                                           unitCost)) :
          Call("getCreditRange", slug, unitCost, NaN,
               EnterRange(credits, inst.target, now, slug, unitCost,
                          from0, to0))

\* getCreditRange followed turn by turn; its estimates are those of
\* unitCost + 0.5 and unitCost - 0.5.
EnterCreditRange(slug, unitCost) ==
    /\ last = NoCall
    /\ inst.state = "ok"
    /\ EnterPriced(getDefinition(credits, inst.target, now, slug), slug,
                   unitCost,
                   IF IsInteger(unitCost) THEN 2 * ToInt(unitCost) + 1 ELSE 0,
                   IF IsInteger(unitCost) THEN 2 * ToInt(unitCost) - 1 ELSE 0)

\* The call under way computes: the unit cost of fixed, or, fixRange having
\* returned, the rest of getCreditRange.
FixRangeCompute ==
    /\ last.op = "getCreditRange"
    /\ last.res.k = "fixRange"
    /\ last.res.pc \in {"price", "return"}
    /\ last' = [last EXCEPT !.res =
                  IF last.res.pc = "price"
                  THEN FixRangePriced(credits, inst.target, last.at, last.slug,
                                      last.res)
                  ELSE FixRangeReturned(credits, inst.target, last.at,
                                        last.slug, last.res)]
    /\ UNCHANGED <<CREDITS, callerCredits, inst, now, run>>

\* The call under way tests the condition of its loop and takes the step.
FixRangeTurn ==
    /\ last.op = "getCreditRange"
    /\ last.res.k = "fixRange"
    /\ last.res.pc = "test"
    /\ last' = [last EXCEPT !.res = FixRangeTurned(last.res)]
    /\ UNCHANGED <<CREDITS, callerCredits, inst, now, run>>

GetDiscountOverDynamic(slug, a, c, dyn) ==
    /\ last = NoCall
    /\ inst.state = "ok"
    /\ \E res \in getDiscountOverDynamic(credits, inst.target, now, slug, a, c,
                                         dyn) :
          CallDynamic("getDiscountOverDynamic", slug, a, c, dyn, res)

GetTotalSavings(slug, a, c, dyn) ==
    /\ last = NoCall
    /\ CallDynamic("getTotalSavings", slug, a, c, dyn,
                   getTotalSavings(credits, inst.target, now, slug, a, c, dyn))

\* One iteration of the loop of the test "should be monotonically
\* increasing until it throws an exception when the max credits cap is
\* reached": for (i = 1; i < 20; i++) with creditsToBuy = 10 ** i / 2 held
\* and bought; a thrown error, the expectation's included, ends the loop.
GrowthStep ==
    /\ inst.state = "ok"
    /\ last = NoCall
    /\ run.pc \in {"idle", "loop"}
    /\ LET creditsToBuy == Norm(5, run.i - 1)
           result == getCreditTotalPrice(credits, inst.target, now,
                                         FEATURE_SLUG, creditsToBuy,
                                         creditsToBuy)
       IN  run' =
             IF run.i >= 20 THEN [run EXCEPT !.pc = "done"]
             ELSE IF result.k = "throw"
             THEN [run EXCEPT !.pc = "done", !.error = result.msg]
             ELSE IF run.hasLast /\ ~NumLess(run.lastResult, result.num)
             THEN [run EXCEPT !.pc = "done", !.error = "AssertionError"]
             ELSE [pc |-> "loop", i |-> run.i + 1, hasLast |-> TRUE,
                   lastResult |-> result.num, error |-> ""]
    /\ UNCHANGED <<CREDITS, callerCredits, inst, now, last>>

\* The selector: construction over every definition sequence and target.
NextSel ==
    \/ /\ inst.state = "none"
       /\ \E options \in SelectorOptions : Constructor(options)
    \/ Tick
    \/ \E slug \in CallSlugs : GetDefinition(slug)

SpecSel == Init /\ [][NextSel]_vars

\* The pricing curve: the test suite's instances and a range of quantities.
Next ==
    \/ /\ inst.state = "none"
       /\ \E options \in PricingOptions : Constructor(options)
    \/ Tick
    \/ \E slug \in PricedSlugs, a \in HeldInputs, c \in PurchaseInputs :
          GetCreditPrice(slug, a, c)
    \/ \E slug \in PricedSlugs, a \in HeldInputs, c \in PurchaseInputs :
          GetCreditTotalPrice(slug, a, c)
    \/ GrowthStep

Spec == Init /\ [][Next]_vars

\* The selector on an instance whose caller goes on using the collection
\* it passed in.
NextOwn ==
    \/ /\ inst.state = "none"
       /\ \E options \in SelectorOptions : Constructor(options)
    \/ Tick
    \/ CallerChanges
    \/ \E slug \in CallSlugs : GetDefinition(slug)

SpecOwn == Init /\ [][NextOwn]_vars

\* The curve over the shapes of definitions: one definition per instance.
NextCurve ==
    \/ /\ inst.state = "none"
       /\ \E options \in CurveOptions : Constructor(options)
    \/ Tick
    \/ \E a \in HeldInputs, c \in PurchaseInputs :
          GetCreditPrice(FEATURE_SLUG, a, c)

SpecCurve == Init /\ [][NextCurve]_vars

\* The comparisons with dynamic pricing, on the instances of the pricing
\* curve.
NextDynamic ==
    \/ /\ inst.state = "none"
       /\ \E options \in PricingOptions : Constructor(options)
    \/ Tick
    \/ \E slug \in PricedSlugs, a \in DynamicHeldInputs,
          c \in DynamicPurchaseInputs :
          GetCreditTotalPrice(slug, a, c)
    \/ \E slug \in PricedSlugs, a \in DynamicHeldInputs,
          c \in DynamicPurchaseInputs, dyn \in DynamicPriceInputs :
          GetDiscountOverDynamic(slug, a, c, dyn)
    \/ \E slug \in PricedSlugs, a \in DynamicHeldInputs,
          c \in DynamicPurchaseInputs, dyn \in DynamicPriceInputs :
          GetTotalSavings(slug, a, c, dyn)

SpecDynamic == Init /\ [][NextDynamic]_vars

\* The quantities, dynamic prices and unit costs of the calls that follow
\* one another on an instance: one that is rejected, one that is served.
CallQuantities == {Int2Num(0), Int2Num(1)}

\* The instances of the test suite, and the constructions its tests of
\* duplicates expect to fail: a version twice, a validFrom twice.
CallOptions ==
    PricingOptions
    \cup {WithCredits(<< [slug |-> FEATURE_SLUG, definitions |-> s] >>, Current) :
            s \in {<< Definition(1, 0), Definition(1, 1) >>,
                   << Definition(1, 0), Definition(2, 0) >>,
                   << Definition(2, 1), Definition(1, 0), Definition(3, 1) >>}}

\* The methods called one after another, in any order and any number of
\* times.
NextCalls ==
    \/ /\ inst.state = "none"
       /\ \E options \in CallOptions : Constructor(options)
    \/ Tick
    \/ \E slug \in PricedSlugs : GetDefinition(slug)
    \/ \E slug \in PricedSlugs, a \in CallQuantities, c \in CallQuantities :
          Call("getCreditPrice", slug, a, c,
               getCreditPrice(credits, inst.target, now, slug, a, c))
    \/ \E slug \in PricedSlugs, a \in CallQuantities, c \in CallQuantities :
          Call("getCreditTotalPrice", slug, a, c,
               getCreditTotalPrice(credits, inst.target, now, slug, a, c))
    \/ \E slug \in PricedSlugs, a \in CallQuantities, c \in CallQuantities,
          dyn \in CallQuantities :
          \E res \in getDiscountOverDynamic(credits, inst.target, now, slug,
                                            a, c, dyn) :
             CallDynamic("getDiscountOverDynamic", slug, a, c, dyn, res)
    \/ \E slug \in PricedSlugs, a \in CallQuantities, c \in CallQuantities,
          dyn \in CallQuantities :
          CallDynamic("getTotalSavings", slug, a, c, dyn,
                      getTotalSavings(credits, inst.target, now, slug, a, c,
                                      dyn))
    \/ \E slug \in PricedSlugs, unitCost \in CallQuantities :
          /\ inst.state = "ok"
          /\ EstimatesFit(credits, inst.target, now, slug, unitCost)
          /\ \E from0 \in FromEstimates(credits, inst.target, now, slug,
                                         unitCost),
                to0 \in ToEstimates(credits, inst.target, now, slug,
                                     unitCost) :
                Call("getCreditRange", slug, unitCost, NaN,
                     getCreditRange(credits, inst.target, now, slug, unitCost,
                                    from0, to0))

SpecCalls == Init /\ [][NextCalls]_vars

\* The quantity ranges: the instances of the pricing curve, asked for the
\* range of a unit cost.
NextRange ==
    \/ /\ inst.state = "none"
       /\ \E options \in PricingOptions : Constructor(options)
    \/ Tick
    \/ \E slug \in PricedSlugs, unitCost \in UnitCostInputs :
          GetCreditRange(slug, unitCost)

SpecRange == Init /\ [][NextRange]_vars

\* The definitions getCreditRange is followed through turn by turn.
FixOptions ==
    {WithCredits(c, Current) : c \in {SMALL_CREDITS, SLOW_CREDITS}}

\* getCreditRange turn by turn through the loops of fixRange.
NextFix ==
    \/ /\ inst.state = "none"
       /\ \E options \in FixOptions : Constructor(options)
    \/ Tick
    \/ \E unitCost \in UnitCostInputs : EnterCreditRange(FEATURE_SLUG, unitCost)
    \/ FixRangeCompute
    \/ FixRangeTurn

SpecFix == Init /\ [][NextFix]_vars

\* Whether the call under way stands before a computation.
Computing ==
    last.res.k = "fixRange" /\ last.res.pc \in {"price", "return"}

\* A call under way is not abandoned, the engine runs it to its end: the
\* turns are taken, and the computations are made.  FixRangeCompute is
\* enabled in the states of Computing and leaves them, so that the last
\* conjunct is WF_vars(FixRangeCompute) with its ENABLED written out.
SpecFixFair == SpecFix /\ WF_vars(FixRangeTurn) /\ []<>(~Computing)

-----------------------------------------------------------------------------
(* Properties                                                              *)

\* What the selector resolved for the last call, at the instant of the call.
Resolved == getDefinition(credits, inst.target, last.at, last.slug)

\* The last call passed the preconditions on its quantities.
ValidQuantities ==
    /\ last.a.k = "num" /\ last.a.e >= 0 /\ last.a.m >= 0
    /\ last.c.k = "num" /\ last.c.e >= 0 /\ last.c.m > 0

\* The last call was getCreditPrice with valid quantities on a feature
\* that resolved to a definition.
PricedCall ==
    /\ last.op = "getCreditPrice"
    /\ ValidQuantities
    /\ Resolved.k = "definition"

LastTotal == NumAdd(last.a, last.c)

\* v is the integer nearest to n / d (d > 0), a tie going up.
IsRounding(v, n, d) == 2 * d * v <= 2 * n + d /\ 2 * n + d < 2 * d * (v + 1)

\* C1: with discountThreshold >= 2 and 1 <= held + purchase <=
\* discountThreshold, getCreditPrice returns the rounded linear interpolation
\* round(first + (thresholdPrice - first) / (threshold - 1) * (total - 1)):
\* first at total = 1 and thresholdPrice at total = threshold.
C1_LinearInterpolation ==
    (/\ PricedCall
     /\ Resolved.def.discountThreshold >= 2
     /\ NumLeq(LastTotal, Int2Num(Resolved.def.discountThreshold)))
    => LET F == Resolved.def.firstDiscountPriceCents
           P == Resolved.def.discountThresholdPriceCents
           T == Resolved.def.discountThreshold
           total == ToInt(LastTotal)
       IN  /\ last.res.k = "number"
           /\ IsInteger(last.res.num)
           /\ IsRounding(ToInt(last.res.num),
                         F * (T - 1) + (P - F) * (total - 1), T - 1)
           /\ total = 1 => last.res.num = Int2Num(F)
           /\ total = T => last.res.num = Int2Num(P)

\* C1's case: a price strictly inside the linear segment.
C1_Witness ==
    /\ PricedCall
    /\ Resolved.def.discountThreshold >= 2
    /\ NumLess(Int2Num(1), LastTotal)
    /\ NumLess(LastTotal, Int2Num(Resolved.def.discountThreshold))
    /\ last.res.k = "number"
    /\ NumLess(last.res.num, Int2Num(Resolved.def.firstDiscountPriceCents))
    /\ NumLess(Int2Num(Resolved.def.discountThresholdPriceCents), last.res.num)

\* C2: past the threshold getCreditPrice raises the overflow error exactly
\* when the rounded power-law value is <= 0 and otherwise returns that
\* value (for a discount rate of 0.99 the value is
\* round(thresholdPrice * (threshold / total)^2)); at or below the
\* threshold the overflow error is never raised.
C2_OverflowIffNonPositive ==
    PricedCall
    => LET pricing == Resolved.def
           value == AsymptoticPrice(pricing, LastTotal)
       IN  IF NumLess(Int2Num(pricing.discountThreshold), LastTotal)
           THEN /\ value <= 0 => /\ last.res.k = "throw"
                                 /\ last.res.msg = QuantityOverflow
                /\ value > 0 => /\ last.res.k = "number"
                                /\ last.res.num = Int2Num(value)
                /\ (/\ pricing.discountRate = [n |-> 99, d |-> 100]
                    /\ NumLess(LastTotal, Int2Num(40000)))
                   => IsRounding(value,
                                 pricing.discountThresholdPriceCents
                                   * pricing.discountThreshold
                                   * pricing.discountThreshold,
                                 ToInt(LastTotal) * ToInt(LastTotal))
           ELSE last.res.msg # QuantityOverflow

\* C2's case: a total past the threshold whose price has decayed to zero.
C2_Witness ==
    /\ PricedCall
    /\ NumLess(Int2Num(Resolved.def.discountThreshold), LastTotal)
    /\ last.res.k = "throw"
    /\ last.res.msg = QuantityOverflow

\* C3: getCreditTotalPrice is strictly increasing in the purchase quantity:
\* with the feature and the held quantity fixed, buying one credit more
\* costs more in total whenever both purchases are priced.
C3_TotalPriceStrictlyIncreasing ==
    (/\ last.op = "getCreditTotalPrice"
     /\ last.res.k = "number")
    => LET more == getCreditTotalPrice(credits, inst.target, last.at,
                                       last.slug, last.a,
                                       NumAdd(last.c, Int2Num(1)))
       IN  more.k = "number" => NumLess(last.res.num, more.num)

\* The instance of the test suite: TEST_CREDITS under target 'current' at
\* an instant when version 2 of foo:bar is the one in effect.
TestPricing ==
    /\ inst.state = "ok"
    /\ inst.shared = "caller"
    /\ callerCredits = sortCredits(TEST_CREDITS)
    /\ inst.target = Current
    /\ getDefinition(credits, inst.target, now, FEATURE_SLUG).def.version = 2

\* C4: the sustained-growth run on the test suite's instance ends in the
\* overflow error, every result before it having exceeded the one before,
\* and the error comes at an i with 10^i > 10^12.
C4_GrowthEndsInOverflow ==
    (TestPricing /\ run.pc = "done")
    => /\ run.error = QuantityOverflow
       /\ run.hasLast
       /\ NumLess(Norm(1, 12), Norm(1, run.i))

\* C4's case: the run has ended, after results were returned.
C4_Witness ==
    /\ TestPricing
    /\ run.pc = "done"
    /\ run.hasLast
    /\ run.i = 19

\* The definitions of the feature of the last call.
LastDefinitions ==
    LET definitions == Lookup(credits, last.slug)
    IN  {definitions[i] : i \in 1..Len(definitions)}

\* The last call was getDefinition on a key of the instance's table.
SelectorCall == last.op = "getDefinition" /\ last.slug \in Keys(credits)

\* The call returned the newest of the definitions in E, or nothing when E
\* is empty.
ReturnsNewestOf(E) ==
    IF E = {} THEN last.res.k = "undefined"
    ELSE /\ last.res.k = "definition"
         /\ last.res.def \in E
         /\ \A d \in E : d.validFrom <= last.res.def.validFrom

\* C5: under target 'current' (or none) getDefinition returns the definition
\* with the greatest validFrom <= the instant of the call: never one of the
\* future, one of this very instant included, nothing when all are to come.
C5_CurrentIsNewestInEffect ==
    (SelectorCall /\ inst.target.k = "current")
    => ReturnsNewestOf({d \in LastDefinitions : d.validFrom <= last.at})

\* C5's case: a definition in effect is returned while another is to come.
C5_Witness ==
    /\ SelectorCall
    /\ inst.target.k = "current"
    /\ last.res.k = "definition"
    /\ \E d \in LastDefinitions : d.validFrom > last.at
    /\ last.res.def.validFrom <= last.at

\* C6: under a Date target d getDefinition returns the definition with the
\* greatest validFrom <= d whatever the clock reads, nothing when there is
\* none.
C6_DateIsNewestUpTo ==
    (SelectorCall /\ inst.target.k = "Date")
    => ReturnsNewestOf({d \in LastDefinitions : d.validFrom <= inst.target.v})

\* C6's case: a definition not yet in effect at the call is returned, an
\* older one being passed over.
C6_Witness ==
    /\ SelectorCall
    /\ inst.target.k = "Date"
    /\ last.res.k = "definition"
    /\ last.res.def.validFrom > last.at
    /\ \E d \in LastDefinitions : d.validFrom < last.res.def.validFrom

\* C7: under target 'latest' getDefinition on a feature with at least one
\* definition returns the one with the greatest validFrom, in effect or not.
C7_LatestIsNewest ==
    (SelectorCall /\ inst.target.k = "latest" /\ LastDefinitions # {})
    => ReturnsNewestOf(LastDefinitions)

\* C7's case: the newest of two definitions is returned before it is in
\* effect.
C7_Witness ==
    /\ SelectorCall
    /\ inst.target.k = "latest"
    /\ last.res.k = "definition"
    /\ last.res.def.validFrom > last.at
    /\ Cardinality(LastDefinitions) >= 2

\* C8: under a numeric target v getDefinition returns the one definition
\* whose version is v, whatever its validFrom, nothing when there is none.
C8_VersionIsExact ==
    (SelectorCall /\ inst.target.k = "number")
    => LET E == {d \in LastDefinitions : d.version = inst.target.v}
       IN  IF E = {} THEN last.res.k = "undefined"
           ELSE last.res.k = "definition" /\ E = {last.res.def}

\* C8's case: the version asked for is returned although a newer one is in
\* effect and it is the older one.
C8_Witness ==
    /\ SelectorCall
    /\ inst.target.k = "number"
    /\ last.res.k = "definition"
    /\ \E d \in LastDefinitions :
          d.validFrom > last.res.def.validFrom /\ d.validFrom <= last.at

\* C9: getDefinition raises the unknown-feature error if and only if the
\* slug is no key of the definition set, and raises nothing for a key.
C9_UnknownFeatureIffNotKey ==
    last.op = "getDefinition"
    => /\ (last.res.k = "throw"
             /\ last.res.msg = "Feature not supported for credits"
             /\ last.res.slug = last.slug)
          <=> last.slug \notin Keys(credits)
       /\ last.slug \in Keys(credits) => last.res.k # "throw"

NotIntegral(x) == x.k = "NaN" \/ x.e < 0

\* C10: getCreditPrice reports the first violated precondition in the order
\* held integral, purchase integral, held >= 0, purchase > 0, and only then
\* resolves the feature; a purchase of 0 is always rejected.
C10_PreconditionOrder ==
    last.op = "getCreditPrice"
    => /\ last.res.k = "throw" /\ last.res.msg =
            "Available credits must be a whole number"
          <=> NotIntegral(last.a)
       /\ last.res.k = "throw" /\ last.res.msg =
            "Credit purchase amount must be a whole number"
          <=> ~NotIntegral(last.a) /\ NotIntegral(last.c)
       /\ last.res.k = "throw" /\ last.res.msg =
            "Available credits must be greater than or equal to 0"
          <=> ~NotIntegral(last.a) /\ ~NotIntegral(last.c) /\ last.a.m < 0
       /\ last.res.k = "throw" /\ last.res.msg =
            "Credit purchase amount must be greater than 0"
          <=> /\ ~NotIntegral(last.a) /\ ~NotIntegral(last.c)
              /\ last.a.m >= 0 /\ last.c.m <= 0
       /\ (ValidQuantities /\ Resolved.k = "throw") => last.res = Resolved
       /\ last.c = Int2Num(0) => last.res.k = "throw"

\* C10's case: a negative held quantity with a purchase of 0 on an unknown
\* slug, three violations at once.
C10_Witness ==
    /\ last.op = "getCreditPrice"
    /\ last.a = Int2Num(-1)
    /\ last.c = Int2Num(0)
    /\ last.slug \notin Keys(credits)
    /\ last.res.msg = "Available credits must be greater than or equal to 0"

\* C11: for valid quantities getCreditPrice raises the unknown-feature
\* error when the slug is no key of the definition set, and the not-priced
\* error when it is a key but nothing resolves under the target; neither
\* case returns a price.
C11_UnknownOrNotPriced ==
    (last.op = "getCreditPrice" /\ ValidQuantities)
    => /\ last.slug \notin Keys(credits)
          => /\ last.res.k = "throw"
             /\ last.res.msg = "Feature not supported for credits"
             /\ last.res.slug = last.slug
       /\ (last.slug \in Keys(credits) /\ Resolved.k = "undefined")
          => /\ last.res.k = "throw"
             /\ last.res.msg = "Requested feature not allowed for credit usage"

\* The last call was getCreditRange and returned a range.
RangeReturned == last.op = "getCreditRange" /\ last.res.k = "range"

\* getCreditPrice(f, 0, n) on the instance of the last call, at its instant.
PriceAt(n) ==
    getCreditPrice(credits, inst.target, last.at, last.slug, Int2Num(0),
                   Int2Num(n))

\* getCreditPrice(f, 0, n) returns cost.
PricesAt(n, cost) ==
    PriceAt(n).k = "number" /\ PriceAt(n).num = Int2Num(cost)

\* The definition of the last call has its first price above its threshold
\* price and a discount rate strictly between 0 and 1.
DecreasingCurve ==
    /\ Resolved.k = "definition"
    /\ Resolved.def.firstDiscountPriceCents
         > Resolved.def.discountThresholdPriceCents
    /\ 0 < Resolved.def.discountRate.n
    /\ Resolved.def.discountRate.n < Resolved.def.discountRate.d

\* C12: for a definition with firstDiscountPriceCents above
\* discountThresholdPriceCents and a discount rate in (0,1), the range
\* getCreditRange returns for a target round-trips through getCreditPrice:
\* `from`, when defined, prices at the target and from - 1 at target + 1;
\* `to`, when defined, prices at the target and to + 1 at target - 1.
C12_RangeRoundTrip ==
    (RangeReturned /\ DecreasingCurve)
    => /\ last.res.hasFrom
          => /\ PricesAt(last.res.from, ToInt(last.a))
             /\ PricesAt(last.res.from - 1, ToInt(last.a) + 1)
       /\ last.res.hasTo
          => /\ PricesAt(last.res.to, ToInt(last.a))
             /\ PricesAt(last.res.to + 1, ToInt(last.a) - 1)

\* The quantities enumerated about a bound: MaxQuantity to each side.
MaxQuantity == 12

\* The quantity domain of the last call's definition ends within
\* 1..MaxQuantity: the price of MaxQuantity credits overflows.
Enumerable == PriceAt(MaxQuantity).k = "throw"

\* The quantities enumerated for the last call: all of the domain when it
\* is enumerable, and otherwise those within MaxQuantity of a bound returned.
Enumerated ==
    IF Enumerable THEN 1..MaxQuantity
    ELSE {n \in (last.res.from - MaxQuantity)..(last.res.from + MaxQuantity) :
            last.res.hasFrom /\ n >= 1}
         \cup {n \in (last.res.to - MaxQuantity)..(last.res.to + MaxQuantity) :
                 last.res.hasTo /\ n >= 1}

\* The enumerated quantities whose unit price is the target.
AtTarget == {n \in Enumerated : PricesAt(n, ToInt(last.a))}

\* C13: getCreditRange agrees with the enumeration of getCreditPrice(f, 0, n)
\* over the quantities n >= 1: `from`, when defined, is the smallest
\* quantity whose unit price is the target, and `to`, when defined, the
\* largest, whatever the estimates were before their correction.
C13_AgreesWithEnumeration ==
    (RangeReturned /\ Resolved.k = "definition")
    => /\ last.res.hasFrom
          => /\ last.res.from \in AtTarget
             /\ \A n \in AtTarget : last.res.from <= n
       /\ last.res.hasTo
          => /\ last.res.to \in AtTarget
             /\ \A n \in AtTarget : n <= last.res.to

RangeRejection ==
    \/ last.res.msg \in {"Unit cost must be a whole number",
                         "Unit cost must be greater than 0",
                         "Feature not supported for credits",
                         "Requested feature not allowed for credit usage"}
    \/ /\ Resolved.k = "definition"
       /\ last.res.msg = "Unit cost cannot be greater than "
                           \o ToString(Resolved.def.firstDiscountPriceCents)

\* C15: getCreditRange rejects, in this order, a target that is not
\* integral, a target of 0 or less, a feature with no resolved definition
\* (the unknown-feature error for a slug that is no key of the definition
\* set, the not-priced error otherwise) and a target above the resolved
\* firstDiscountPriceCents; an integer target in 1..firstDiscountPriceCents
\* meets none of these rejections.
C15_RangePreconditionOrder ==
    last.op = "getCreditRange"
    => IF ~IsInteger(last.a)
       THEN /\ last.res.k = "throw"
            /\ last.res.msg = "Unit cost must be a whole number"
       ELSE IF NumLeq(last.a, Int2Num(0))
       THEN /\ last.res.k = "throw"
            /\ last.res.msg = "Unit cost must be greater than 0"
       ELSE IF last.slug \notin Keys(credits)
       THEN /\ last.res.k = "throw"
            /\ last.res.msg = "Feature not supported for credits"
            /\ last.res.slug = last.slug
       ELSE IF Resolved.k = "undefined"
       THEN /\ last.res.k = "throw"
            /\ last.res.msg = "Requested feature not allowed for credit usage"
       ELSE IF ToInt(last.a) > Resolved.def.firstDiscountPriceCents
       THEN /\ last.res.k = "throw"
            /\ last.res.msg = "Unit cost cannot be greater than "
                                \o ToString(Resolved.def.firstDiscountPriceCents)
       ELSE last.res.k = "throw" => ~RangeRejection

\* The credits the instance was constructed from, as they were declared or
\* supplied.
Supplied ==
    IF inst.options.hasCredits THEN inst.options.credits ELSE DeclaredCREDITS

\* s holds exactly the elements of t, each as often.
IsPermutation(s, t) ==
    /\ Len(s) = Len(t)
    /\ \E p \in Permutations(1..Len(t)) : \A i \in 1..Len(t) : s[i] = t[p[i]]

\* C16: after a successful construction the instance holds, for every
\* feature supplied, exactly the definitions supplied for it, none added,
\* dropped or altered, arranged by validFrom from the newest to the
\* oldest, in whatever order they were supplied.
C16_SortedAsSupplied ==
    inst.state = "ok"
    => /\ Len(credits) = Len(Supplied)
       /\ \A i \in 1..Len(Supplied) :
             /\ credits[i].slug = Supplied[i].slug
             /\ IsPermutation(credits[i].definitions, Supplied[i].definitions)
             /\ \A j, k \in 1..Len(credits[i].definitions) :
                   j < k => credits[i].definitions[j].validFrom
                              > credits[i].definitions[k].validFrom

\* C16's case: the definitions of the test "should sort credit pricing
\* definitions", supplied as versions 2, 3, 1, are held as 3, 2, 1.
C16_Witness ==
    /\ inst.state = "ok"
    /\ inst.options.hasCredits
    /\ Supplied[1].definitions = SORT_CREDITS[1].definitions
    /\ Len(credits[1].definitions) = 3
    /\ credits[1].definitions[1].version = 3
    /\ credits[1].definitions[2].version = 2
    /\ credits[1].definitions[3].version = 1

\* Feature i of the credits supplied has two definitions with the same
\* version, or two with the same validFrom.
SameVersion(i) ==
    \E j, k \in 1..Len(Supplied[i].definitions) :
        j # k /\ Supplied[i].definitions[j].version
                   = Supplied[i].definitions[k].version

SameValidFrom(i) ==
    \E j, k \in 1..Len(Supplied[i].definitions) :
        j # k /\ Supplied[i].definitions[j].validFrom
                   = Supplied[i].definitions[k].validFrom

\* C17: construction raises a duplicate error exactly when some feature has
\* two definitions with the same version or two with the same validFrom
\* instant; the error names the slug of such a feature and the version
\* that occurs twice, or the ISO form of the validFrom that does; and no
\* instance results, so that nothing is ever called on one.
C17_DuplicateIffError ==
    inst.state # "none"
    => /\ inst.state = "failed"
            <=> \E i \in 1..Len(Supplied) : SameVersion(i) \/ SameValidFrom(i)
       /\ inst.state = "failed"
            => /\ last = NoCall
               /\ \E i \in 1..Len(Supplied) :
                     /\ inst.error.slug = Supplied[i].slug
                     /\ \/ /\ inst.error.msg = "Duplicate version"
                           /\ \E j, k \in 1..Len(Supplied[i].definitions) :
                                 /\ j # k
                                 /\ Supplied[i].definitions[j].version
                                      = inst.error.version
                                 /\ Supplied[i].definitions[k].version
                                      = inst.error.version
                        \/ /\ inst.error.msg = "Duplicate validFrom"
                           /\ \E j, k \in 1..Len(Supplied[i].definitions) :
                                 /\ j # k
                                 /\ toISOString(Supplied[i].definitions[j].validFrom)
                                      = inst.error.validFrom
                                 /\ Supplied[i].definitions[k].validFrom
                                      = Supplied[i].definitions[j].validFrom
       /\ inst.state = "ok" => inst.error = NoError

\* C17's case: two definitions of different versions and the same validFrom
\* are refused, the error naming the feature and that instant.
C17_Witness ==
    /\ inst.state = "failed"
    /\ inst.error.msg = "Duplicate validFrom"
    /\ inst.error.slug = FEATURE_SLUG
    /\ inst.error.validFrom = toISOString(1)
    /\ ~SameVersion(1)
    /\ SameValidFrom(1)

\* getCreditPrice for the arguments of the last call, at its instant.
LastPrice ==
    getCreditPrice(credits, inst.target, last.at, last.slug, last.a, last.c)

\* The last call, of operation op, returned a number, its unit price and
\* its dynamic price being numbers.
Compared(op) ==
    /\ last.op = op
    /\ last.res.k = "number"
    /\ LastPrice.k = "number"
    /\ LastPrice.num.k = "num"
    /\ last.dyn.k = "num"

\* C18: getDiscountOverDynamic returns
\* round((dynamicPriceCents - unitPrice) / dynamicPriceCents * 100), the
\* unit price being getCreditPrice for the same arguments; whatever
\* dynamicPriceCents is, the result is at most 100, and it is negative only
\* when the unit price is above dynamicPriceCents.
C18_DiscountAtMostHundred ==
    Compared("getDiscountOverDynamic")
    => LET d == ToInt(last.dyn)
           unitPrice == ToInt(LastPrice.num)
       IN  IF d = 0 THEN last.res.num = NegInfinity /\ unitPrice > d
           ELSE /\ IsInteger(last.res.num)
                /\ ToInt(last.res.num) \in RoundPercent(d - unitPrice, d)
                /\ ToInt(last.res.num) <= 100
                /\ ToInt(last.res.num) < 0 => unitPrice > d

\* C19: for an integer dynamicPriceCents getTotalSavings returns
\* purchase * (dynamicPriceCents - unitPrice), which is
\* purchase * dynamicPriceCents - getCreditTotalPrice for the same
\* arguments; it is negative exactly when the unit price is above
\* dynamicPriceCents and zero exactly when the two are equal.
C19_SavingsAgainstDynamic ==
    (last.op = "getTotalSavings" /\ last.res.k = "number"
       /\ IsInteger(last.dyn))
    => LET unitPrice == LastPrice.num
           total == getCreditTotalPrice(credits, inst.target, last.at,
                                        last.slug, last.a, last.c)
       IN  /\ LastPrice.k = "number"
           /\ total.k = "number"
           /\ last.res.num
                = NumMul(last.c, NumAdd(last.dyn, NumNeg(unitPrice)))
           /\ last.res.num
                = NumAdd(NumMul(last.c, last.dyn), NumNeg(total.num))
           /\ NumLess(last.res.num, Int2Num(0))
                <=> NumLess(last.dyn, unitPrice)
           /\ last.res.num = Int2Num(0) <=> unitPrice = last.dyn

\* C19's case: under 'latest' a thousand credits cost 204 cents each
\* against a dynamic price of 200, and the savings are negative.
C19_Witness ==
    /\ last.op = "getTotalSavings"
    /\ inst.target.k = "latest"
    /\ last.c = Int2Num(1000)
    /\ last.dyn = Int2Num(200)
    /\ last.res.k = "number"
    /\ NumLess(last.dyn, LastPrice.num)
    /\ last.res.num = NumMul(Int2Num(1000), NumAdd(Int2Num(200), NumNeg(LastPrice.num)))
    /\ NumLess(last.res.num, Int2Num(0))

\* C20: getCreditTotalPrice, getDiscountOverDynamic and getTotalSavings
\* fail exactly when getCreditPrice fails for the same slug and quantities,
\* and with its error, whatever dynamicPriceCents is; where getCreditPrice
\* rejects its input none of them returns a value.
C20_FailsAsCreditPrice ==
    last.op \in {"getCreditTotalPrice", "getDiscountOverDynamic",
                 "getTotalSavings"}
    => IF LastPrice.k = "throw" THEN last.res = LastPrice
       ELSE last.res.k = "number"

\* C20's case: getDiscountOverDynamic on a quantity past the end of the
\* curve fails with the overflow error of getCreditPrice.
C20_Witness ==
    /\ last.op = "getDiscountOverDynamic"
    /\ last.dyn = Int2Num(200)
    /\ last.res.k = "throw"
    /\ last.res.msg = QuantityOverflow
    /\ LastPrice.msg = QuantityOverflow

\* The last call bought one credit with discountThreshold credits held: the
\* first point of the asymptotic segment.
PastThreshold ==
    /\ PricedCall
    /\ last.a = Int2Num(Resolved.def.discountThreshold)
    /\ last.c = Int2Num(1)

\* C21: the curve is continuous across the threshold: the price of one
\* credit bought with discountThreshold held is within one cent of
\* discountThresholdPriceCents and never above the price at
\* total = discountThreshold.
C21_ContinuousAtThreshold ==
    PastThreshold
    => /\ last.res.k = "number"
       /\ IsInteger(last.res.num)
       /\ Resolved.def.discountThresholdPriceCents - ToInt(last.res.num) <= 1
       /\ ToInt(last.res.num) - Resolved.def.discountThresholdPriceCents <= 1
       /\ NumLeq(last.res.num,
                 LinearPrice(Resolved.def,
                             Int2Num(Resolved.def.discountThreshold)))

\* C22: the built-in table of definitions is never changed at run time:
\* whatever instances are constructed without credits and whatever is
\* called on them, its contents and the order of its elements stay as
\* declared.
C22_DefaultsAsDeclared == CREDITS = DeclaredCREDITS

\* C23: after construction the definition sequences of the instance are
\* its own: whatever the caller does afterwards to the arrays it passed in,
\* getDefinition returns what it returns on the definitions supplied at
\* construction, sorted.
C23_OwnsItsDefinitions ==
    last.op = "getDefinition"
    => last.res = getDefinition(sortCredits(Supplied), inst.target, last.at,
                                last.slug)

\* C24: every public operation either raises an InvalidParametersError or
\* returns a well-defined result: no error of another kind, and no number
\* that is NaN or infinite, for every definition and dynamic price.
C24_TypedErrorOrFiniteNumber ==
    last.op # "none"
    => /\ last.res.k = "throw"
            => last.res.msg # "TypeError: find is not a function"
       /\ last.res.k = "number" => last.res.num.k = "num"


\* C25: getCreditRange always terminates: a call that has entered fixRange
\* leaves it, with a range or with an error, after finitely many turns.
C25_RangeTerminates ==
    (last.res.k = "fixRange") ~> (last.res.k # "fixRange")


\* n / d, d > 0, rounded half away from zero.
RoundAway(n, d) ==
    IF n >= 0 THEN (2 * n + d) \div (2 * d) ELSE -((2 * (-n) + d) \div (2 * d))

\* C26: the rounding steps round half away from zero, for negative values
\* too: the discount percentage is 100 * (dynamicPriceCents - unitPrice) /
\* dynamicPriceCents so rounded, the savings creditsToPurchase *
\* (dynamicPriceCents - unitPrice) so rounded.
C26_RoundsHalfAwayFromZero ==
    /\ (Compared("getDiscountOverDynamic") /\ last.dyn.m > 0)
          => last.res.num
               = Int2Num(RoundAway(100 * (ToInt(last.dyn)
                                            - ToInt(LastPrice.num)),
                                   ToInt(last.dyn)))
    /\ Compared("getTotalSavings")
          => last.res.num
               = Int2Num(RoundAway(ToInt(last.c) * (ToInt(last.dyn)
                                                      - ToInt(LastPrice.num)),
                                   1))


\* getCreditPrice of the last call's instance for total credits bought with
\* none held.
PriceOfTotal(total) ==
    getCreditPrice(credits, inst.target, last.at, last.slug, Int2Num(0), total)

\* C27: for a definition with firstDiscountPriceCents >
\* discountThresholdPriceCents and discountRate in (0, 1), getCreditPrice is
\* a function of total = held + purchase alone, and it does not increase
\* with total: the price is a number that the price of one credit more
\* does not exceed.
C27_NonIncreasingInTotal ==
    (/\ PricedCall
     /\ Resolved.def.firstDiscountPriceCents
          > Resolved.def.discountThresholdPriceCents
     /\ last.res.k = "number")
    => /\ last.res = PriceOfTotal(LastTotal)
       /\ last.res.num.k = "num"
       /\ PriceOfTotal(NumAdd(LastTotal, Int2Num(1))).k = "number"
            => NumLeq(PriceOfTotal(NumAdd(LastTotal, Int2Num(1))).num,
                      last.res.num)


\* A definition of the shape the data model describes: a first price above
\* a threshold price of a cent or more, a threshold of 2 or more, a
\* discount rate in (0, 1).
WellShaped(pricing) ==
    /\ pricing.firstDiscountPriceCents > pricing.discountThresholdPriceCents
    /\ pricing.discountThresholdPriceCents >= 1
    /\ pricing.discountThreshold >= 2
    /\ 0 < pricing.discountRate.n
    /\ pricing.discountRate.n < pricing.discountRate.d

\* C28: on a definition of that shape every value getCreditPrice returns is
\* an integer from 1 to firstDiscountPriceCents; 0 is never returned.
C28_PriceFromOneToFirst ==
    (/\ last.op = "getCreditPrice"
     /\ last.res.k = "number"
     /\ Resolved.k = "definition"
     /\ WellShaped(Resolved.def))
    => /\ IsInteger(last.res.num)
       /\ NumLeq(Int2Num(1), last.res.num)
       /\ NumLeq(last.res.num, Int2Num(Resolved.def.firstDiscountPriceCents))

\* C28's case: past the threshold of such a definition the price has come
\* down to one cent, the least value returned.
C28_Witness ==
    /\ PricedCall
    /\ WellShaped(Resolved.def)
    /\ NumLess(Int2Num(Resolved.def.discountThreshold), LastTotal)
    /\ last.res.k = "number"
    /\ last.res.num = Int2Num(1)


\* The definitions of a feature have pairwise distinct versions and
\* validFrom instants that strictly decrease from first to last.
StrictlyOrdered(definitions) ==
    \A j, k \in 1..Len(definitions) :
        j < k => /\ definitions[j].version # definitions[k].version
                 /\ definitions[j].validFrom > definitions[k].validFrom

\* C29: after any sequence of calls, served or rejected, the target and the
\* definitions of the instance are what construction made them (the target
\* of the options or 'current', the definitions supplied, sorted), and in
\* every feature's sequence the versions are pairwise distinct and the
\* validFrom instants strictly decrease.
C29_InstanceAsConstructed ==
    inst.state = "ok"
    => /\ inst.target = (IF inst.options.hasTarget THEN inst.options.target
                         ELSE Current)
       /\ credits = sortCredits(Supplied)
       /\ \A i \in 1..Len(credits) : StrictlyOrdered(credits[i].definitions)

\* C29's case: a call was rejected on an instance whose target is a
\* version and whose definitions were supplied oldest first.
C29_Witness ==
    /\ inst.state = "ok"
    /\ inst.target = Number(1)
    /\ Supplied = TEST_CREDITS
    /\ last.op = "getTotalSavings"
    /\ last.res.k = "throw"


\* Two calls of getDefinition that follow one another on an instance of
\* target 'current', for one feature that is a key of its table.
CalledAgain ==
    /\ SelectorCall
    /\ inst.target.k = "current"
    /\ last'.op = "getDefinition"
    /\ last'.slug = last.slug

\* C30: under target 'current' the clock is read at each call.  A call at or
\* after the validFrom of a definition returns that definition or one that
\* came into effect after it, however long before the instance was
\* constructed; and from one call to the next for a feature, a definition is
\* followed by a definition whose validFrom is not earlier, never by
\* nothing.
C30_ClockReadAtEachCall ==
    /\ [](SelectorCall /\ inst.target.k = "current"
            => \A d \in LastDefinitions :
                  d.validFrom <= last.at
                  => /\ last.res.k = "definition"
                     /\ last.res.def.validFrom >= d.validFrom
                     /\ last.res.def.validFrom <= last.at)
    /\ [][(CalledAgain /\ last.res.k = "definition")
            => /\ last'.res.k = "definition"
               /\ last'.res.def.validFrom >= last.res.def.validFrom]_vars

\* C30's case: the instance was asked before any definition of the feature
\* was in effect and returned nothing; the clock has since reached the
\* validFrom of a definition, which the next call is to return.
C30_Witness ==
    /\ SelectorCall
    /\ inst.target.k = "current"
    /\ last.res.k = "undefined"
    /\ last.at < now
    /\ \E d \in LastDefinitions : last.at < d.validFrom /\ d.validFrom <= now

=============================================================================
